---- MODULE Spec2Model ----
(***************************************************************************)
(* Discollama: a Discord bot that relays mentions to an Ollama inference   *)
(* service.  The model covers the Response renderer (write), the context   *)
(* store (save / load over Redis), the connection watchdog                 *)
(* (scheduleReconnect / selfHeal / startHeartbeatWatchdog) and the         *)
(* context resolution of onMessage.                                        *)
(***************************************************************************)
EXTENDS Integers, Sequences, FiniteSets, TLC

(***************************************************************************)
(* JavaScript strings.  A string is kept run-length encoded: a sequence of *)
(* runs [c |-> character, n |-> repetitions], normalised (n > 0, adjacent  *)
(* runs differ in c).  Two strings are equal iff their encodings are, so   *)
(* lengths up to the Discord limit of 2000 are kept at their real size.    *)
(***************************************************************************)
Empty == <<>>

Rep(c, n) == IF n = 0 THEN <<>> ELSE <<[c |-> c, n |-> n]>>

\* String.prototype.length
RECURSIVE StrLen(_)
StrLen(s) == IF s = <<>> THEN 0 ELSE s[1].n + StrLen(Tail(s))

\* a + b on strings
Cat(a, b) ==
    IF a = <<>> THEN b
    ELSE IF b = <<>> THEN a
    ELSE IF a[Len(a)].c = b[1].c
         THEN SubSeq(a, 1, Len(a) - 1)
              \o <<[c |-> b[1].c, n |-> a[Len(a)].n + b[1].n]>>
              \o Tail(b)
         ELSE a \o b

\* the one whitespace character of the model
WS == " "

\* String.prototype.trim: whitespace removed at both ends
Trim(s) ==
    LET l == IF s # <<>> /\ s[1].c = WS THEN Tail(s) ELSE s
    IN  IF l # <<>> /\ l[Len(l)].c = WS THEN SubSeq(l, 1, Len(l) - 1) ELSE l

\* the continuation marker onMessage passes with every streamed part
Dots == Rep(".", 3)

(***************************************************************************)
(* State.                                                                  *)
(***************************************************************************)
\* the Response renderer
VARIABLES
    resp,       \* the Response object: [buffer, r, channel, message]; r = 0
                \* is null, otherwise the index in chat of the open message
    chat,       \* the messages of the reply in emission order:
                \* [channel, body, text]; body is what Discord shows, text is
                \* the trimmed buffer the body was last rendered from
    threads,    \* the threads created by channel.threads.create, in order:
                \* [channel, startMessage]
    writes,     \* history: the write(s, end) calls made so far
    seals,      \* history: how often write took the reset branch
    done        \* the final write("") of onMessage has been made

\* the context store
VARIABLES
    redis,      \* the Redis keyspace: key -> [set, v, exp]; a key that is not
                \* set, or whose expiry time has come, is absent
    redisTime,  \* the clock of the Redis server, in seconds
    ld,         \* the load call in flight or last completed:
                \* [pc, channelId, messageId, result, clean]
    lastSave,   \* history: id -> the last save made for that channel or
                \* message: [made, messageId, ctx, at, seq], seq being the
                \* place of the save call among all save calls
    nsaves,     \* history: the number of save calls
    nticks      \* history: the number of clock steps

\* the connection watchdog
VARIABLES
    now,                \* Date.now(), in milliseconds
    lastHeartbeat,      \* this.lastHeartbeat
    isDiscordReady,     \* this.isDiscordReady
    reconnectAttempts,  \* this.reconnectAttempts
    shuttingDown,       \* this.shuttingDown
    selfHealEnv,        \* process.env.SELF_HEAL === "true"
    checkAt,            \* the setInterval timers of startHeartbeatWatchdog:
                        \* the time each fires next
    healTimers,         \* the pending setTimeout(() => this.selfHeal(), delay):
                        \* the time each is due
    exitTimers,         \* the pending setTimeout(() => process.exit(1), 1000)
    quits,              \* the number of redis.quit() calls
    exited,             \* process.exit(1) has run
    delays,             \* history: the delays scheduleReconnect computed since
                        \* the last clientReady
    nexits,             \* history: the number of process.exit timers set
    nevents             \* history: the gateway events and clock steps so far:
                        \* [ready, resume, disconnect, tick, message], and
                        \* messageAt, the time of the last mention

\* the turns of onMessage
VARIABLES
    turns               \* turn -> the onMessage call for the turn's message:
                        \* [pc, message, content, context, messageId, r,
                        \*  lastPart, nparts] and, as history, fetched (the
                        \* grounding fetch was called), refSaved (the last
                        \* save for the replied-to message when it was loaded)
                        \* failed (the await that threw, "" for none),
                        \* sent (the indices in chat of the messages the
                        \* turn's renderer sent), gotContext (the stream
                        \* ended with a part that carries a context) and
                        \* along (the turns in flight when the message came)

\* the throttling generator
VARIABLES
    stream,     \* the parts the inference stream delivers, in order:
                \* [response, done, hasContext, context]
    pos,        \* the number of parts generate has taken from the stream
    buffer,     \* let buffer
    lastFlush,  \* let lastFlush
    firstToken, \* let firstToken
    genNow,     \* Date.now() as generate sees it, in milliseconds
    genPc,      \* where generate is: "next" (awaiting the next part),
                \* "yield" (suspended at the yield), "end" (returned)
    yielded,    \* history: the parts generate has yielded, in order
    ngticks     \* history: the number of clock steps

rvars == <<resp, chat, threads, writes, seals, done>>
svars == <<redis, redisTime, ld, lastSave, nsaves, nticks>>
wvars == <<now, lastHeartbeat, isDiscordReady, reconnectAttempts, shuttingDown,
           selfHealEnv, checkAt, healTimers, exitTimers, quits, exited,
           delays, nexits, nevents>>

tvars == <<turns>>

gvars == <<stream, pos, buffer, lastFlush, firstToken, genNow, genPc,
           yielded, ngticks>>

vars == <<rvars, svars, wvars, tvars, gvars>>

(***************************************************************************)
(* The Response renderer (class Response).                                 *)
(***************************************************************************)
\* the number of write calls of one turn before the final write("")
MaxWrites == 3

\* Discord's limit on a message body
Limit == 2000

GuildText == "GuildText"
PublicThread == "PublicThread"

\* the channel the inbound message was posted in
PlainChannel == [id |-> 1, type |-> GuildText]
ThreadChannel == [id |-> 2, type |-> PublicThread]

\* the channel returned by channel.threads.create
NewThread(k) == [id |-> 10 + k, type |-> PublicThread]

\* the number of inbound messages, and of those being handled at a time
MaxTurns == 2
MaxInFlight == 2

TurnIds == 1..MaxTurns

\* the id of the message of turn t
MessageOf(t) == 100 + t

\* a message of the channel that the bot never answered
OldMessage == 100

\* the texts a streamed part may carry
Increments ==
    { Empty, Rep("a", 1), Rep(WS, 1), Cat(Rep(WS, 1), Rep("a", 1)),
      Rep("a", 1000), Rep("b", 997), Rep("b", 2001) }

Suffixes == { Empty, Dots }

\* a Discord message: its id, its channel, the id of the message it replies
\* to (0 for none), its text and its author
NoMessage == [id |-> 0, channel |-> PlainChannel, reference |-> 0,
              content |-> Empty, from |-> "user"]

\* constructor(message)
NewResponse(message) ==
    [buffer |-> Empty, r |-> 0, channel |-> message.channel, message |-> message]

\* the test for a thread made on the channel the message came in
NeedsThreadOfOrigin(rs) == rs.message.channel.type = GuildText

\* this.channel.type === ChannelType.GuildText
NeedsThread(rs) == rs.channel.type = GuildText

\* the length test without the suffix
OverflowsNoSuffix(buf, s, end) == StrLen(Cat(buf, s)) > Limit

\* (this.buffer + s + end).length > 2000
Overflows(buf, s, end) == StrLen(Cat(Cat(buf, s), end)) > Limit

\* write(s, end) on renderer rs with the chat log ch and the threads th:
\* the renderer, chat log and threads after the call, and whether the reset
\* branch ran
write(rs, ch, th, s, end) ==
    LET over  == Overflows(rs.buffer, s, end)
        r1    == IF over THEN 0 ELSE rs.r
        buf   == Cat(IF over THEN Empty ELSE rs.buffer, s)
        value == Trim(buf)
        mkthr == NeedsThread(rs)
        dest  == IF mkthr THEN NewThread(Len(th) + 1) ELSE rs.channel
    IN  IF value = Empty
        THEN [resp |-> [rs EXCEPT !.buffer = buf, !.r = r1],
              chat |-> ch, threads |-> th, over |-> over]
        ELSE IF r1 # 0
        THEN [resp |-> [rs EXCEPT !.buffer = buf, !.r = r1],
              chat |-> [ch EXCEPT ![r1].body = Cat(value, end),
                                  ![r1].text = value],
              threads |-> th, over |-> over]
        ELSE [resp |-> [rs EXCEPT !.buffer = buf, !.r = Len(ch) + 1,
                                  !.channel = dest],
              chat |-> Append(ch, [channel |-> dest.id, body |-> value,
                                   text |-> value]),
              threads |-> IF mkthr
                          THEN Append(th, [channel |-> dest,
                                           startMessage |-> rs.message.id])
                          ELSE th,
              over |-> over]

RInit ==
    /\ \E ch \in {PlainChannel, ThreadChannel} :
         resp = NewResponse([NoMessage EXCEPT !.id = MessageOf(1), !.channel = ch])
    /\ chat = <<>>
    /\ threads = <<>>
    /\ writes = <<>>
    /\ seals = 0
    /\ done = FALSE

\* await r.write(part.response, end)
RWrite ==
    /\ ~done
    /\ Len(writes) < MaxWrites
    /\ \E s \in Increments, end \in Suffixes :
         LET out == write(resp, chat, threads, s, end)
         IN  /\ resp' = out.resp
             /\ chat' = out.chat
             /\ threads' = out.threads
             /\ writes' = Append(writes, [s |-> s, end |-> end])
             /\ seals' = IF out.over THEN seals + 1 ELSE seals
    /\ UNCHANGED <<done, svars, wvars, tvars, gvars>>

\* await r.write("")
RFinish ==
    /\ ~done
    /\ LET out == write(resp, chat, threads, Empty, Empty)
       IN  /\ resp' = out.resp
           /\ chat' = out.chat
           /\ threads' = out.threads
           /\ seals' = IF out.over THEN seals + 1 ELSE seals
    /\ writes' = Append(writes, [s |-> Empty, end |-> Empty])
    /\ done' = TRUE
    /\ UNCHANGED <<svars, wvars, tvars, gvars>>


(***************************************************************************)
(* The context store: Discollama.save and Discollama.load over Redis.      *)
(***************************************************************************)
MaxSaves == 2
MaxTicks == 2

\* 60 * 60 * 24 * 7, the EX argument of both redis.set calls
WeekSeconds == 60 * 60 * 24 * 7

ChannelIds == {1, 2}
MessageIds == {101, 102, 103}

\* message.channel.id: a Discord message belongs to one channel
ChannelOf(m) == IF m = 103 THEN 2 ELSE 1

\* `discollama:channel:${channelId}` and `discollama:message:${messageId}`
ChannelKey(c) == <<"channel", c>>
MessageKey(m) == <<"message", m>>

\* the ids of channels, threads and messages
Ids == ChannelIds \cup MessageIds \cup {OldMessage}
       \cup {NewThread(t).id : t \in TurnIds} \cup {MessageOf(t) : t \in TurnIds}

Keys == {"channel", "message"} \X Ids

\* continuation contexts: a JSON array of token numbers or a JSON object
Arr(v) == [t |-> "array", v |-> v]
Obj == [t |-> "object", v |-> <<>>]
Contexts == { Obj, Arr(<<>>), Arr(<<1, 2>>) }

\* the [] that load returns on a miss
EmptyContext == Arr(<<>>)

DigitChar(n) == <<"0", "1", "2", "3", "4", "5", "6", "7", "8", "9">>[n + 1]
DigitOf(ch) == CHOOSE n \in 0..9 : DigitChar(n) = ch

\* JSON.stringify(ctx): the text as a sequence of characters
RECURSIVE StringifyItems(_)
StringifyItems(v) ==
    IF v = <<>> THEN <<>>
    ELSE IF Len(v) = 1 THEN <<DigitChar(v[1])>>
    ELSE <<DigitChar(v[1]), ",">> \o StringifyItems(Tail(v))

JSONStringify(x) ==
    IF x.t = "object" THEN <<"{", "}">>
    ELSE <<"[">> \o StringifyItems(x.v) \o <<"]">>

\* JSON.parse(text)
JSONParse(text) ==
    IF text[1] = "{" THEN Obj
    ELSE Arr([i \in 1..((Len(text) - 1) \div 2) |-> DigitOf(text[2 * i])])

Unset == [set |-> FALSE, v |-> <<>>, exp |-> 0]

\* redis.set(key, value, "EX", seconds)
RedisSet(db, key, value, seconds) ==
    [db EXCEPT ![key] = [set |-> TRUE, v |-> value, exp |-> redisTime + seconds]]

\* redis.get(key): [ok, v], ok = FALSE standing for null
RedisGet(db, key) ==
    IF db[key].set /\ redisTime < db[key].exp
    THEN [ok |-> TRUE, v |-> db[key].v]
    ELSE [ok |-> FALSE, v |-> <<>>]

\* save that leaves an existing channel entry alone
saveKeepChannel(db, channelId, messageId, ctx) ==
    RedisSet(IF RedisGet(db, ChannelKey(channelId)).ok THEN db
             ELSE RedisSet(db, ChannelKey(channelId), messageId, WeekSeconds),
             MessageKey(messageId), JSONStringify(ctx), WeekSeconds)

\* save that stores the context under the channel's id
saveWrongKey(db, channelId, messageId, ctx) ==
    RedisSet(RedisSet(db, ChannelKey(channelId), messageId, WeekSeconds),
             MessageKey(channelId), JSONStringify(ctx), WeekSeconds)

\* save(channelId, messageId, ctx): the keyspace after both redis.set calls
save(db, channelId, messageId, ctx) ==
    RedisSet(RedisSet(db, ChannelKey(channelId), messageId, WeekSeconds),
             MessageKey(messageId), JSONStringify(ctx), WeekSeconds)

Idle == [pc |-> "idle", channelId |-> 0, messageId |-> 0,
         result |-> EmptyContext, clean |-> TRUE]

NoSave == [made |-> FALSE, messageId |-> 0, ctx |-> EmptyContext, at |-> 0,
           seq |-> 0]

SInit ==
    /\ redis = [k \in Keys |-> Unset]
    /\ redisTime = 0
    /\ ld = Idle
    /\ lastSave = [i \in Ids |-> NoSave]
    /\ nsaves = 0
    /\ nticks = 0

\* a save or a clock step after a load was called comes between the load and
\* the save before it, or makes the value it returned a thing of the past
Touched == IF ld.pc = "idle" THEN ld ELSE [ld EXCEPT !.clean = FALSE]

\* this.save(r.channel.id, message.id, lastPart.context)
SSave ==
    /\ nsaves < MaxSaves
    /\ \E m \in MessageIds, x \in Contexts :
         LET c == ChannelOf(m)
             h == [made |-> TRUE, messageId |-> m, ctx |-> x, at |-> redisTime,
                   seq |-> nsaves + 1]
         IN  /\ redis' = save(redis, c, m, x)
             /\ lastSave' = [lastSave EXCEPT ![c] = h, ![m] = h]
    /\ nsaves' = nsaves + 1
    /\ ld' = Touched
    /\ UNCHANGED <<redisTime, nticks, rvars, wvars, tvars, gvars>>

\* load({ channelId }): up to the first await
SLoadChannel ==
    /\ ld.pc \in {"idle", "returned"}
    /\ \E c \in ChannelIds :
         ld' = [Idle EXCEPT !.pc = "channel", !.channelId = c]
    /\ UNCHANGED <<redis, redisTime, lastSave, nsaves, nticks, rvars, wvars, tvars, gvars>>

\* load({ messageId }): up to the first await
SLoadMessage ==
    /\ ld.pc \in {"idle", "returned"}
    /\ \E m \in MessageIds :
         ld' = [Idle EXCEPT !.pc = "message", !.messageId = m]
    /\ UNCHANGED <<redis, redisTime, lastSave, nsaves, nticks, rvars, wvars, tvars, gvars>>

\* messageId = await this.redis.get(channel key); if (!messageId) return []
SLoadGetChannel ==
    /\ ld.pc = "channel"
    /\ LET g == RedisGet(redis, ChannelKey(ld.channelId))
       IN  ld' = IF g.ok
                 THEN [ld EXCEPT !.pc = "message", !.messageId = g.v]
                 ELSE [ld EXCEPT !.pc = "returned", !.result = EmptyContext]
    /\ UNCHANGED <<redis, redisTime, lastSave, nsaves, nticks, rvars, wvars, tvars, gvars>>

\* the value load returns for the reply g of redis.get(message key)
loadResult(g) == IF g.ok THEN JSONParse(g.v) ELSE EmptyContext

\* the value load({ channelId: c }) returns on the keyspace db
loadChannel(db, c) ==
    LET g == RedisGet(db, ChannelKey(c))
    IN  IF g.ok THEN loadResult(RedisGet(db, MessageKey(g.v))) ELSE EmptyContext

\* ctx = await this.redis.get(message key); return ctx ? JSON.parse(ctx) : []
SLoadGetMessage ==
    /\ ld.pc = "message"
    /\ ld' = [ld EXCEPT !.pc = "returned",
                        !.result = loadResult(RedisGet(redis, MessageKey(ld.messageId)))]
    /\ UNCHANGED <<redis, redisTime, lastSave, nsaves, nticks, rvars, wvars, tvars, gvars>>

\* time passes on the Redis server
STick ==
    /\ nticks < MaxTicks
    /\ \E d \in {1, WeekSeconds - 1} : redisTime' = redisTime + d
    /\ nticks' = nticks + 1
    /\ ld' = Touched
    /\ UNCHANGED <<redis, lastSave, nsaves, rvars, wvars, tvars, gvars>>

SNext ==
    \/ SSave
    \/ SLoadChannel
    \/ SLoadMessage
    \/ SLoadGetChannel
    \/ SLoadGetMessage
    \/ STick

(***************************************************************************)
(* The connection watchdog: the gateway event handlers of Discollama,      *)
(* startHeartbeatWatchdog, scheduleReconnect and selfHeal.                 *)
(***************************************************************************)
MaxReadies == 1
MaxResumes == 1
MaxDisconnects == 3
MaxClockSteps == 2
MaxMessages == 1

HEARTBEAT_INTERVAL == 30000
RECONNECT_BASE_DELAY == 2000
RECONNECT_MAX_DELAY == 60000

\* 10 * 60 * 1000: "restart only if Discord is truly dead (10+ minutes)"
StaleAfter == 10 * 60 * 1000

\* the delay of setTimeout(() => process.exit(1), 1000)
ExitDelay == 1000

Min(a, b) == IF a <= b THEN a ELSE b

\* Math.min(RECONNECT_BASE_DELAY * 2 ** attempts, RECONNECT_MAX_DELAY)
ReconnectDelay(attempts) ==
    Min(RECONNECT_BASE_DELAY * 2 ^ attempts, RECONNECT_MAX_DELAY)

\* the test with the operands of the subtraction exchanged
IsStaleSwapped(t, heartbeat) == heartbeat - t > StaleAfter

\* diff = Date.now() - this.lastHeartbeat; diff > 10 * 60 * 1000
IsStale(t, heartbeat) == t - heartbeat > StaleAfter

\* the sequence q without its i-th element
Without(q, i) == SubSeq(q, 1, i - 1) \o SubSeq(q, i + 1, Len(q))

WInit ==
    /\ now = 0
    /\ lastHeartbeat = 0
    /\ isDiscordReady = FALSE
    /\ reconnectAttempts = 0
    /\ shuttingDown = FALSE
    /\ selfHealEnv \in BOOLEAN
    /\ checkAt = <<>>
    /\ healTimers = <<>>
    /\ exitTimers = <<>>
    /\ quits = 0
    /\ exited = FALSE
    /\ delays = <<>>
    /\ nexits = 0
    /\ nevents = [ready |-> 0, resume |-> 0, disconnect |-> 0, tick |-> 0,
                  message |-> 0, messageAt |-> 0]

\* selfHeal without the test of process.env.SELF_HEAL
selfHealIgnoresEnv ==
    IF shuttingDown
    THEN UNCHANGED <<shuttingDown, quits, exitTimers, nexits>>
    ELSE /\ shuttingDown' = TRUE
         /\ quits' = quits + 1
         /\ exitTimers' = Append(exitTimers, now + ExitDelay)
         /\ nexits' = nexits + 1

\* selfHeal without the test of this.shuttingDown
selfHealUnguarded ==
    IF ~selfHealEnv
    THEN UNCHANGED <<shuttingDown, quits, exitTimers, nexits>>
    ELSE /\ shuttingDown' = TRUE
         /\ quits' = quits + 1
         /\ exitTimers' = Append(exitTimers, now + ExitDelay)
         /\ nexits' = nexits + 1

\* selfHeal()
selfHeal ==
    IF ~selfHealEnv \/ shuttingDown
    THEN UNCHANGED <<shuttingDown, quits, exitTimers, nexits>>
    ELSE /\ shuttingDown' = TRUE
         /\ quits' = quits + 1
         /\ exitTimers' = Append(exitTimers, now + ExitDelay)
         /\ nexits' = nexits + 1

\* scheduleReconnect()
scheduleReconnect ==
    IF shuttingDown
    THEN UNCHANGED <<reconnectAttempts, healTimers, delays>>
    ELSE /\ reconnectAttempts' = reconnectAttempts + 1
         /\ healTimers' = Append(healTimers,
                                 now + ReconnectDelay(reconnectAttempts + 1))
         /\ delays' = Append(delays, ReconnectDelay(reconnectAttempts + 1))

\* onReady that clears the pending self-heal timers
WReadyCancels ==
    /\ ~exited
    /\ nevents.ready < MaxReadies
    /\ isDiscordReady' = TRUE
    /\ lastHeartbeat' = now
    /\ reconnectAttempts' = 0
    /\ checkAt' = Append(checkAt, now + HEARTBEAT_INTERVAL)
    /\ healTimers' = <<>>
    /\ delays' = <<>>
    /\ nevents' = [nevents EXCEPT !.ready = @ + 1]
    /\ UNCHANGED <<now, shuttingDown, selfHealEnv, exitTimers,
                   quits, exited, nexits, rvars, svars, tvars, gvars>>

\* client.on("clientReady"): onReady()
WReady ==
    /\ ~exited
    /\ nevents.ready < MaxReadies
    /\ isDiscordReady' = TRUE
    /\ lastHeartbeat' = now
    /\ reconnectAttempts' = 0
    /\ checkAt' = Append(checkAt, now + HEARTBEAT_INTERVAL)
    /\ delays' = <<>>
    /\ nevents' = [nevents EXCEPT !.ready = @ + 1]
    /\ UNCHANGED <<now, shuttingDown, selfHealEnv, healTimers, exitTimers,
                   quits, exited, nexits, rvars, svars, tvars, gvars>>

\* client.on("shardResume")
WResume ==
    /\ ~exited
    /\ nevents.resume < MaxResumes
    /\ lastHeartbeat' = now
    /\ nevents' = [nevents EXCEPT !.resume = @ + 1]
    /\ UNCHANGED <<now, isDiscordReady, reconnectAttempts, shuttingDown,
                   selfHealEnv, checkAt, healTimers, exitTimers, quits, exited,
                   delays, nexits, rvars, svars, tvars, gvars>>

\* client.on("shardDisconnect")
WDisconnect ==
    /\ ~exited
    /\ nevents.disconnect < MaxDisconnects
    /\ isDiscordReady' = FALSE
    /\ scheduleReconnect
    /\ nevents' = [nevents EXCEPT !.disconnect = @ + 1]
    /\ UNCHANGED <<now, lastHeartbeat, shuttingDown, selfHealEnv, checkAt,
                   exitTimers, quits, exited, nexits, rvars, svars, tvars, gvars>>

\* the callback of setInterval(..., HEARTBEAT_INTERVAL) in
\* startHeartbeatWatchdog
WHeartbeatCheck ==
    /\ ~exited
    /\ \E i \in 1..Len(checkAt) :
         /\ now >= checkAt[i]
         /\ checkAt' = [checkAt EXCEPT ![i] = now + HEARTBEAT_INTERVAL]
    /\ IF isDiscordReady /\ IsStale(now, lastHeartbeat)
       THEN selfHeal
       ELSE UNCHANGED <<shuttingDown, quits, exitTimers, nexits>>
    /\ UNCHANGED <<now, lastHeartbeat, isDiscordReady, reconnectAttempts,
                   selfHealEnv, healTimers, exited, delays, nevents,
                   rvars, svars, tvars, gvars>>

\* the callback of setTimeout(() => this.selfHeal(), delay)
WHealTimer ==
    /\ ~exited
    /\ \E i \in 1..Len(healTimers) :
         /\ now >= healTimers[i]
         /\ healTimers' = Without(healTimers, i)
    /\ selfHeal
    /\ UNCHANGED <<now, lastHeartbeat, isDiscordReady, reconnectAttempts,
                   selfHealEnv, checkAt, exited, delays, nevents, rvars, svars, tvars, gvars>>

\* the callback of setTimeout(() => process.exit(1), 1000)
WExit ==
    /\ ~exited
    /\ \E i \in 1..Len(exitTimers) :
         /\ now >= exitTimers[i]
         /\ exitTimers' = Without(exitTimers, i)
    /\ exited' = TRUE
    /\ UNCHANGED <<now, lastHeartbeat, isDiscordReady, reconnectAttempts,
                   shuttingDown, selfHealEnv, checkAt, healTimers, quits,
                   delays, nexits, nevents, rvars, svars, tvars, gvars>>

\* time passes
WTick ==
    /\ ~exited
    /\ nevents.tick < MaxClockSteps
    /\ \E d \in {1000, StaleAfter} : now' = now + d
    /\ nevents' = [nevents EXCEPT !.tick = @ + 1]
    /\ UNCHANGED <<lastHeartbeat, isDiscordReady, reconnectAttempts,
                   shuttingDown, selfHealEnv, checkAt, healTimers, exitTimers,
                   quits, exited, delays, nexits, rvars, svars, tvars, gvars>>

\* the times at which a pending setTimeout callback is due
Deadlines ==
    {healTimers[i] : i \in 1..Len(healTimers)}
    \cup {exitTimers[i] : i \in 1..Len(exitTimers)}

\* time passes until the next pending setTimeout callback is due
WElapse ==
    /\ ~exited
    /\ \E d \in Deadlines :
         /\ d > now
         /\ \A e \in Deadlines : e > now => d <= e
         /\ now' = d
    /\ UNCHANGED <<lastHeartbeat, isDiscordReady, reconnectAttempts,
                   shuttingDown, selfHealEnv, checkAt, healTimers, exitTimers,
                   quits, exited, delays, nexits, nevents, rvars, svars, tvars,
                   gvars>>

\* client.on("messageCreate"): onMessage for a mention by a user; nothing in
\* it reads or writes the watchdog's fields
WMessage ==
    /\ ~exited
    /\ nevents.message < MaxMessages
    /\ nevents' = [nevents EXCEPT !.message = @ + 1, !.messageAt = now]
    /\ UNCHANGED <<now, lastHeartbeat, isDiscordReady, reconnectAttempts,
                   shuttingDown, selfHealEnv, checkAt, healTimers, exitTimers,
                   quits, exited, delays, nexits, rvars, svars, tvars, gvars>>

WNext ==
    \/ WReady
    \/ WResume
    \/ WDisconnect
    \/ WHeartbeatCheck
    \/ WHealTimer
    \/ WExit
    \/ WTick

(***************************************************************************)
(* The conversation controller: Discollama.onMessage.                      *)
(***************************************************************************)
MaxParts == 1

\* `<@${this.client.user.id}>`, kept as one character
Mention == "<@bot>"

\* the texts of inbound messages: the mention alone, and the mention followed
\* by a question
MessageTexts == { Rep(Mention, 1), Cat(Rep(Mention, 1), Cat(Rep(WS, 1), Rep("q", 1))) }

\* "Hi!"
Hi == Cat(Rep("H", 1), Cat(Rep("i", 1), Rep("!", 1)))

\* the line put between the question and the replied-to text, kept as one
\* character
UseThis == Rep("Use this to answer the question if it is relevant, otherwise ignore it:", 1)

NL == Rep("\n", 1)

\* s.replace(mention, ""): the first occurrence removed
RemoveMention(s) ==
    IF \E i \in 1..Len(s) : s[i].c = Mention
    THEN LET i == CHOOSE j \in 1..Len(s) :
                    s[j].c = Mention /\ \A k \in 1..(j - 1) : s[k].c # Mention
         IN  Cat(Cat(SubSeq(s, 1, i - 1), Rep(Mention, s[i].n - 1)),
                 SubSeq(s, i + 1, Len(s)))
    ELSE s

\* content = message.content.replace(mention, "").trim(); if (!content) "Hi!"
StripContent(text) ==
    LET c == Trim(RemoveMention(text)) IN IF c = Empty THEN Hi ELSE c

\* [content, "Use this ...", referenceMessage.content].join("\n")
Grounded(content, reftext) ==
    Cat(content, Cat(NL, Cat(UseThis, Cat(NL, reftext))))

\* the test that takes every loaded value for a context
HasLengthAlways(ctx) == TRUE

\* context.length, as a condition
HasLength(ctx) == ctx.t = "array" /\ Len(ctx.v) > 0

NoPart == [some |-> FALSE, done |-> FALSE, hasContext |-> FALSE,
           context |-> EmptyContext]

NoTurn == [pc |-> "idle", message |-> NoMessage, content |-> Empty,
           context |-> EmptyContext, messageId |-> 0,
           r |-> NewResponse(NoMessage), lastPart |-> NoPart, nparts |-> 0,
           fetched |-> FALSE, refSaved |-> NoSave, failed |-> "",
           sent |-> <<>>, gotContext |-> FALSE, along |-> {}]

TInit == turns = [t \in TurnIds |-> NoTurn]

\* the turns whose onMessage call is suspended at an await
InFlight == {t \in TurnIds : turns[t].pc \notin {"idle", "ignored", "done", "aborted"}}

\* onMessage has returned or thrown: its locals are gone
Ended(t, how) == [NoTurn EXCEPT !.pc = how, !.message = turns[t].message,
                                !.sent = turns[t].sent,
                                !.gotContext = turns[t].gotContext,
                                !.along = turns[t].along]

\* the messages of the turn after a write that left the chat log ch
Sent(t, ch) ==
    IF Len(ch) > Len(chat) THEN Append(turns[t].sent, Len(ch)) ELSE turns[t].sent

\* the awaited call named by what rejected: nothing in onMessage catches it,
\* so the promise of onMessage rejects and the rest of the handler never runs
Threw(t, what) == [Ended(t, "aborted") EXCEPT !.failed = what]

\* referenceMessage.content for the message with the given id
ContentOf(id) ==
    IF id = OldMessage THEN Rep("r", 1) ELSE turns[id - 100].message.content

\* client.on("messageCreate"): onMessage up to its first await
TReceive(t) ==
    /\ ~exited
    /\ turns[t].pc = "idle"
    /\ \A u \in 1..(t - 1) : turns[u].pc # "idle"
    /\ Cardinality(InFlight) < MaxInFlight
    /\ \E ch \in {PlainChannel, ThreadChannel},
          ref \in {0, OldMessage} \cup {MessageOf(u) : u \in 1..(t - 1)},
          text \in MessageTexts,
          from \in {"user", "bot", "unmentioned"} :
         LET m == [id |-> MessageOf(t), channel |-> ch, reference |-> ref,
                   content |-> text, from |-> from]
         IN  turns' = [turns EXCEPT ![t] =
                 IF from # "user"
                 THEN [NoTurn EXCEPT !.pc = "ignored", !.message = m]
                 ELSE [@ EXCEPT !.pc = IF ref # 0 THEN "loadRef" ELSE "loadChannel",
                                !.message = m,
                                !.along = InFlight,
                                !.content = StripContent(text),
                                !.r = NewResponse(m)]]
    /\ UNCHANGED <<rvars, svars, wvars, gvars>>

\* context = await this.load({ messageId: message.reference.messageId });
\* up: the promise of redis.get resolves; otherwise it rejects, and load,
\* which has no try/catch, rejects with it
TLoadRef(t) ==
    /\ turns[t].pc = "loadRef"
    /\ \E up \in BOOLEAN :
         LET ref == turns[t].message.reference
             ctx == loadResult(RedisGet(redis, MessageKey(ref)))
         IN  turns' = [turns EXCEPT ![t] =
                 IF up
                 THEN [@ EXCEPT !.context = ctx,
                                !.refSaved = lastSave[ref],
                                !.pc = IF HasLength(ctx) THEN "stream" ELSE "fetch"]
                 ELSE Threw(t, "load")]
    /\ UNCHANGED <<rvars, svars, wvars, gvars>>

\* referenceMessage = await channel.messages.fetch(...); content = [...].join
TFetch(t) ==
    /\ turns[t].pc = "fetch"
    /\ \E ok \in BOOLEAN :
         turns' = [turns EXCEPT ![t] =
             IF ok
             THEN [@ EXCEPT !.fetched = TRUE,
                            !.content = Grounded(@, ContentOf(turns[t].message.reference)),
                            !.pc = "loadChannel"]
             ELSE Threw(t, "fetch")]
    /\ UNCHANGED <<rvars, svars, wvars, gvars>>

\* load({ channelId: channel.id }): messageId = await this.redis.get(...)
TLoadChannel(t) ==
    /\ turns[t].pc = "loadChannel"
    /\ \E up \in BOOLEAN :
         LET g == RedisGet(redis, ChannelKey(turns[t].message.channel.id))
         IN  turns' = [turns EXCEPT ![t] =
                 IF ~up THEN Threw(t, "load")
                 ELSE IF g.ok
                 THEN [@ EXCEPT !.messageId = g.v, !.pc = "loadChannelMessage"]
                 ELSE [@ EXCEPT !.context = EmptyContext, !.pc = "stream"]]
    /\ UNCHANGED <<rvars, svars, wvars, gvars>>

\* load({ channelId }): ctx = await this.redis.get(...); return
TLoadChannelMessage(t) ==
    /\ turns[t].pc = "loadChannelMessage"
    /\ \E up \in BOOLEAN :
         turns' = [turns EXCEPT ![t] =
             IF up
             THEN [@ EXCEPT !.context = loadResult(RedisGet(redis, MessageKey(turns[t].messageId))),
                            !.pc = "stream"]
             ELSE Threw(t, "load")]
    /\ UNCHANGED <<rvars, svars, wvars, gvars>>

\* for await (const part of this.generate(...)): a part that is not the last;
\* await r.write(part.response, "...")
TPart(t) ==
    /\ turns[t].pc = "stream"
    /\ turns[t].nparts < MaxParts
    /\ \E s \in {Rep("a", 1)} :
         LET out == write(turns[t].r, chat, threads, s, Dots)
         IN  /\ chat' = out.chat
             /\ threads' = out.threads
             /\ turns' = [turns EXCEPT ![t] =
                    [@ EXCEPT !.r = out.resp,
                              !.sent = Sent(t, out.chat),
                              !.nparts = @ + 1,
                              !.lastPart = [NoPart EXCEPT !.some = TRUE]]]
    /\ UNCHANGED <<resp, writes, seals, done, svars, wvars, gvars>>

\* the part with done = true, with or without a context
TLastPart(t) ==
    /\ turns[t].pc = "stream"
    /\ \E s \in {Empty, Rep("a", 1)}, has \in BOOLEAN, x \in Contexts :
         /\ ~has => x = EmptyContext
         /\ LET out == write(turns[t].r, chat, threads, s, Dots)
            IN  /\ chat' = out.chat
                /\ threads' = out.threads
                /\ turns' = [turns EXCEPT ![t] =
                       [@ EXCEPT !.r = out.resp,
                                 !.sent = Sent(t, out.chat),
                                 !.gotContext = has,
                                 !.lastPart = [some |-> TRUE, done |-> TRUE,
                                               hasContext |-> has, context |-> x],
                                 !.pc = "final"]]
    /\ UNCHANGED <<resp, writes, seals, done, svars, wvars, gvars>>

\* the stream ends with no part that has done = true
TStreamEnd(t) ==
    /\ turns[t].pc = "stream"
    /\ turns' = [turns EXCEPT ![t] = [@ EXCEPT !.pc = "final"]]
    /\ UNCHANGED <<rvars, svars, wvars, gvars>>

\* a stream failure that takes back what the turn has sent
TStreamFailRollback(t) ==
    /\ turns[t].pc = "stream"
    /\ chat' = [i \in 1..Len(chat) |->
                  IF \E k \in 1..Len(turns[t].sent) : turns[t].sent[k] = i
                  THEN [chat[i] EXCEPT !.body = Empty, !.text = Empty]
                  ELSE chat[i]]
    /\ turns' = [turns EXCEPT ![t] = Threw(t, "stream")]
    /\ UNCHANGED <<resp, threads, writes, seals, done, svars, wvars, gvars>>

\* the stream throws: ollama.generate rejects, or the iteration of the
\* stream does, before or after parts were written
TStreamFail(t) ==
    /\ turns[t].pc = "stream"
    /\ turns' = [turns EXCEPT ![t] = Threw(t, "stream")]
    /\ UNCHANGED <<rvars, svars, wvars, gvars>>

\* the end of onMessage that saves whatever the last part holds
TFinalAlwaysSaves(t) ==
    /\ turns[t].pc = "final"
    /\ LET out == write(turns[t].r, chat, threads, Empty, Empty)
       IN  /\ chat' = out.chat
           /\ threads' = out.threads
           /\ turns' = [turns EXCEPT ![t] =
                  [@ EXCEPT !.r = out.resp, !.sent = Sent(t, out.chat),
                            !.pc = "save"]]
    /\ UNCHANGED <<resp, writes, seals, done, svars, wvars, gvars>>

\* await r.write(""); if (lastPart?.context)
TFinal(t) ==
    /\ turns[t].pc = "final"
    /\ LET out == write(turns[t].r, chat, threads, Empty, Empty)
       IN  /\ chat' = out.chat
           /\ threads' = out.threads
           /\ turns' = [turns EXCEPT ![t] =
                  IF turns[t].lastPart.some /\ turns[t].lastPart.hasContext
                  THEN [@ EXCEPT !.r = out.resp, !.sent = Sent(t, out.chat),
                                 !.pc = "save"]
                  ELSE [Ended(t, "done") EXCEPT !.sent = Sent(t, out.chat)]]
    /\ UNCHANGED <<resp, writes, seals, done, svars, wvars, gvars>>

\* await this.save(r.channel.id, message.id, lastPart.context); save issues
\* both redis.set calls in one go and awaits neither: when they are rejected
\* (~up) nothing is stored, save has returned all the same, and the
\* rejections go to the unhandledRejection handler
TSave(t) ==
    /\ turns[t].pc = "save"
    /\ \E up \in BOOLEAN :
         LET c == turns[t].r.channel.id
             m == turns[t].message.id
             x == turns[t].lastPart.context
             h == [made |-> TRUE, messageId |-> m, ctx |-> x, at |-> redisTime,
                   seq |-> nsaves + 1]
         IN  IF up
             THEN /\ redis' = save(redis, c, m, x)
                  /\ lastSave' = [lastSave EXCEPT ![c] = h, ![m] = h]
                  /\ turns' = [turns EXCEPT ![t] = Ended(t, "done")]
             ELSE /\ UNCHANGED <<redis, lastSave>>
                  /\ turns' = [turns EXCEPT ![t] =
                         [Ended(t, "done") EXCEPT !.failed = "save"]]
    /\ nsaves' = nsaves + 1
    /\ UNCHANGED <<redisTime, ld, nticks, rvars, wvars, gvars>>

TNext ==
    \E t \in TurnIds :
        \/ TReceive(t)
        \/ TLoadRef(t)
        \/ TFetch(t)
        \/ TLoadChannel(t)
        \/ TLoadChannelMessage(t)
        \/ TPart(t)
        \/ TLastPart(t)
        \/ TStreamEnd(t)
        \/ TStreamFail(t)
        \/ TFinal(t)
        \/ TSave(t)

(***************************************************************************)
(* The throttling generator: Discollama.generate.                          *)
(***************************************************************************)
MaxStream == 3
MaxGenTicks == 3

\* the flush interval of generate, in milliseconds
FlushAfter == 200

\* a part with no response field
Undefined == <<[c |-> "undefined", n |-> 0]>>

\* part.response || ""
OrEmpty(r) == IF r = Undefined \/ r = Empty THEN Empty ELSE r

\* the parts a stream may deliver: text or none, and the part with done = true
\* carrying the continuation context
Parts ==
    { [response |-> r, done |-> FALSE, hasContext |-> FALSE, context |-> EmptyContext] :
        r \in {Undefined, Empty, Rep("a", 1), Rep("b", 1)} }
    \cup
    { [response |-> r, done |-> TRUE, hasContext |-> TRUE, context |-> Arr(<<1, 2>>)] :
        r \in {Undefined, Empty, Rep("a", 1)} }

Streams == UNION { [1..n -> Parts] : n \in 0..MaxStream }

\* the flush test without part.done
ShouldYieldNoDone(first, isDone, elapsed) == first \/ elapsed > FlushAfter

\* firstToken || part.done || Date.now() - lastFlush > 200
ShouldYield(first, isDone, elapsed) == first \/ isDone \/ elapsed > FlushAfter

\* generate(model, content, context) up to the first part of the stream
GInit ==
    /\ stream \in Streams
    /\ pos = 0
    /\ buffer = Empty
    /\ lastFlush = 0
    /\ firstToken = TRUE
    /\ genNow = 0
    /\ genPc = "next"
    /\ yielded = <<>>
    /\ ngticks = 0

\* for await (const part of stream): the next part arrives; buffer += ...;
\* if (...) { firstToken = false; yield { ...part, response: buffer }
GNextPart ==
    /\ genPc = "next"
    /\ pos < Len(stream)
    /\ LET part == stream[pos + 1]
           buf  == Cat(buffer, OrEmpty(part.response))
       IN  /\ pos' = pos + 1
           /\ buffer' = buf
           /\ IF ShouldYield(firstToken, part.done, genNow - lastFlush)
              THEN /\ firstToken' = FALSE
                   /\ yielded' = Append(yielded, [part EXCEPT !.response = buf])
                   /\ genPc' = "yield"
              ELSE UNCHANGED <<firstToken, yielded, genPc>>
    /\ UNCHANGED <<stream, lastFlush, genNow, ngticks, rvars, svars, wvars, tvars>>

\* the consumer asks for the next part: buffer = ""; lastFlush = Date.now()
GResume ==
    /\ genPc = "yield"
    /\ buffer' = Empty
    /\ lastFlush' = genNow
    /\ genPc' = "next"
    /\ UNCHANGED <<stream, pos, firstToken, genNow, yielded, ngticks,
                   rvars, svars, wvars, tvars>>

\* the stream is exhausted: the for await loop and generate end
GEnd ==
    /\ genPc = "next"
    /\ pos = Len(stream)
    /\ genPc' = "end"
    /\ UNCHANGED <<stream, pos, buffer, lastFlush, firstToken, genNow, yielded,
                   ngticks, rvars, svars, wvars, tvars>>

\* time passes, while generate waits for a part or for its consumer
GTick ==
    /\ genPc # "end"
    /\ ngticks < MaxGenTicks
    /\ \E d \in {100, 101} : genNow' = genNow + d
    /\ ngticks' = ngticks + 1
    /\ UNCHANGED <<stream, pos, buffer, lastFlush, firstToken, genPc, yielded,
                   rvars, svars, wvars, tvars>>

GNext ==
    \/ GNextPart
    \/ GResume
    \/ GEnd
    \/ GTick

(***************************************************************************)
(* Specifications.                                                         *)
(***************************************************************************)
\* no call of generate is under way
GIdle == stream = <<>> /\ GInit

RNext == RWrite \/ RFinish

InitRender == RInit /\ SInit /\ WInit /\ selfHealEnv /\ TInit /\ GIdle

\* one Response driven by a sequence of write calls
SpecRender == InitRender /\ [][RNext]_vars

InitStore == SInit /\ RInit /\ resp.channel = PlainChannel /\ WInit /\ selfHealEnv /\ TInit /\ GIdle

\* the context store under save and load calls, with time passing
SpecStore == InitStore /\ [][SNext]_vars

InitWatchdog == WInit /\ RInit /\ resp.channel = PlainChannel /\ SInit /\ TInit /\ GIdle

\* the watchdog under gateway events and timers
SpecWatchdog == InitWatchdog /\ [][WNext]_vars

InitInbound == WInit /\ selfHealEnv /\ RInit /\ resp.channel = PlainChannel
               /\ SInit /\ TInit /\ GIdle

INext == WNext \/ WMessage

\* the watchdog under gateway events, timers and inbound mentions
SpecInbound == InitInbound /\ [][INext]_vars

InitHeal == WInit /\ TInit /\ RInit /\ resp.channel = PlainChannel /\ SInit
            /\ GIdle

HNext ==
    \/ WReady
    \/ WResume
    \/ WDisconnect
    \/ WHealTimer
    \/ WExit
    \/ WElapse

\* the gateway events and the timeouts of scheduleReconnect and selfHeal with
\* the event loop running: time goes on to the next pending timeout, and a
\* callback that is due runs.  The periodic check, first due 30 s after a
\* ready event, does not come due within the backoff delays followed here.
SpecHeal ==
    /\ InitHeal
    /\ [][HNext]_vars
    /\ WF_vars(WElapse)
    /\ WF_vars(WHealTimer)
    /\ WF_vars(WExit)

InitTurns == TInit /\ RInit /\ resp.channel = PlainChannel /\ SInit
             /\ WInit /\ selfHealEnv /\ GIdle

InitGenerate == GInit /\ RInit /\ resp.channel = PlainChannel /\ SInit
                /\ WInit /\ selfHealEnv /\ TInit

\* one call of generate over a stream, with time passing between the parts
SpecGenerate == InitGenerate /\ [][GNext]_vars

\* onMessage for a bounded number of inbound messages, their turns
\* interleaving at the awaits
SpecTurns == InitTurns /\ [][TNext]_vars

(***************************************************************************)
(* Properties of the renderer.                                             *)
(***************************************************************************)
\* the concatenation of the increments of the first k write calls
RECURSIVE IncsUpTo(_)
IncsUpTo(k) == IF k = 0 THEN Empty ELSE Cat(IncsUpTo(k - 1), writes[k].s)

\* the concatenation of the bodies of the first k messages of the reply
RECURSIVE BodiesUpTo(_)
BodiesUpTo(k) == IF k = 0 THEN Empty ELSE Cat(BodiesUpTo(k - 1), chat[k].body)

\* C1: every message body the renderer has sent or edited into the chat is at
\* most 2000 characters long, whatever the increments were.
C1_SizeInvariant ==
    \A i \in 1..Len(chat) : StrLen(chat[i].body) <= 2000

\* C2: after the final flush the bodies of the reply's messages, concatenated
\* in emission order, are the concatenation of the increments written.
C2_ContentReconstruction ==
    done => BodiesUpTo(Len(chat)) = IncsUpTo(Len(writes))

\* the write call the step makes, if it makes one
LastWrite == writes'[Len(writes')]
IsWrite == Len(writes') = Len(writes) + 1

\* the call's increment does not fit: accumulator + increment + suffix is
\* longer than 2000 characters
Exceeds == StrLen(resp.buffer) + StrLen(LastWrite.s) + StrLen(LastWrite.end) > 2000

\* a seal-and-reopen: the open message loses its handle and is never touched
\* again, the accumulator restarts from the increment, and the increment is
\* sent as a new message (none is sent while it is only whitespace)
SealAndReopen ==
    /\ seals' = seals + 1
    /\ resp'.buffer = LastWrite.s
    /\ \A i \in 1..Len(chat) : chat'[i] = chat[i]
    /\ IF Trim(LastWrite.s) = Empty
       THEN chat' = chat /\ resp'.r = 0
       ELSE /\ Len(chat') = Len(chat) + 1
            /\ resp'.r = Len(chat')
            /\ chat'[Len(chat')].body = Trim(LastWrite.s)

\* a write that fits: no seal, the increment joins the accumulator and the
\* open message, if there is one, stays the open message
FitsAndAppends ==
    /\ seals' = seals
    /\ resp'.buffer = Cat(resp.buffer, LastWrite.s)
    /\ resp.r # 0 => resp'.r = resp.r /\ Len(chat') = Len(chat)

\* no write so far exceeded the limit with the running total of all increments
NoExcessYet ==
    \A k \in 1..Len(writes) :
        StrLen(IncsUpTo(k)) + StrLen(writes[k].end) <= 2000

\* the first write whose running total exceeds the limit
FirstExcess ==
    CHOOSE k \in 1..Len(writes) :
        /\ StrLen(IncsUpTo(k)) + StrLen(writes[k].end) > 2000
        /\ \A j \in 1..(k - 1) :
              StrLen(IncsUpTo(j)) + StrLen(writes[j].end) <= 2000

\* the increments of writes j..k, concatenated
RECURSIVE IncsFrom(_, _)
IncsFrom(j, k) == IF k < j THEN Empty ELSE Cat(IncsFrom(j, k - 1), writes[k].s)

\* C3: a write seals the open message, clears the accumulator and moves the
\* increment to a new message exactly when accumulator + increment + suffix
\* would exceed 2000 characters; the first seal is at the first write where
\* the running total exceeds the limit, and increments that go just past the
\* limit (what follows the boundary fits one message) cause exactly one seal.
C3_OverflowSeals ==
    /\ [][IsWrite => IF Exceeds THEN SealAndReopen ELSE FitsAndAppends]_vars
    /\ [](seals = 0 <=> NoExcessYet)
    /\ [](~NoExcessYet
            /\ (\A k \in FirstExcess..Len(writes) :
                  StrLen(IncsFrom(FirstExcess, k)) + StrLen(writes[k].end) <= 2000)
          => seals = 1)

\* C3 witness: 1000 + 997 characters were flushed into the first message and
\* the next increment, which fits only without its suffix, opened a second one
C3_Witness ==
    /\ seals = 1
    /\ Len(chat) = 2
    /\ resp.r = 2
    /\ StrLen(chat[1].text) = 1997
    /\ StrLen(IncsUpTo(Len(writes))) = 1998

\* C4: a message sealed by an overflow keeps in the chat the accumulated
\* increment text without the continuation suffix; only the open message may
\* show the suffix.
C4_SuffixNotRetained ==
    \A i \in 1..Len(chat) : i # resp.r => chat[i].body = chat[i].text

(***************************************************************************)
(* Properties of the context store.                                        *)
(***************************************************************************)
\* what a load of id i has to return now: the context of the last save made
\* for i while that save is less than 7 days old, the empty context otherwise
Remembered(i) ==
    IF lastSave[i].made /\ redisTime < lastSave[i].at + 60 * 60 * 24 * 7
    THEN lastSave[i].ctx
    ELSE EmptyContext

\* a load that returned with no save and no clock step since its call
ReturnedClean == ld.pc = "returned" /\ ld.clean

\* C5: load({messageId: m}) returns exactly the context X of the last
\* save(c, m, X) until 7 days have passed since that save, and the empty
\* context, not an error, after that.
C5_ContextRoundTrip ==
    ReturnedClean /\ ld.channelId = 0 => ld.result = Remembered(ld.messageId)

\* C5 witness: an empty object, saved under a message, is loaded back one
\* second before its expiry
C5_Witness ==
    /\ ReturnedClean
    /\ ld.channelId = 0
    /\ lastSave[ld.messageId].made
    /\ lastSave[ld.messageId].ctx = Obj
    /\ redisTime = lastSave[ld.messageId].at + 60 * 60 * 24 * 7 - 1
    /\ ld.result = Obj

\* C6: load({channelId: c}) returns the context of the most recent save on
\* channel c, whatever was saved on c before it.
C6_ChannelLastWriterWins ==
    ReturnedClean /\ ld.channelId # 0 => ld.result = Remembered(ld.channelId)

\* C6 witness: message 101 was saved with X, then message 102 of the same
\* channel with another context Y, and the channel load returns Y
C6_Witness ==
    /\ ReturnedClean
    /\ ld.channelId = 1
    /\ lastSave[101].made
    /\ lastSave[1].messageId = 102
    /\ lastSave[101].at < lastSave[102].at
    /\ lastSave[101].ctx # lastSave[102].ctx
    /\ redisTime < lastSave[101].at + 60 * 60 * 24 * 7
    /\ ld.result = lastSave[102].ctx
    /\ ld.result # EmptyContext

(***************************************************************************)
(* Properties of the watchdog.                                             *)
(***************************************************************************)
\* C7: the first, second and third disconnect since the last ready event
\* schedule self-heal after 2 s, 4 s and 8 s, and no delay is above 60 s.
C7_BackoffDelays ==
    /\ Len(delays) >= 1 => delays[1] = 2000
    /\ Len(delays) >= 2 => delays[2] = 4000
    /\ Len(delays) >= 3 => delays[3] = 8000
    /\ \A i \in 1..Len(delays) : delays[i] <= 60000

\* the step is a run of the periodic heartbeat check
IsCheck == Len(checkAt') = Len(checkAt) /\ checkAt' # checkAt

\* the step is a shardDisconnect event
IsDisconnect == nevents'.disconnect = nevents.disconnect + 1

\* Connected, with self-heal enabled, and silent for more than 10 minutes
SilentTooLong ==
    /\ isDiscordReady
    /\ selfHealEnv
    /\ ~shuttingDown
    /\ now - lastHeartbeat > 10 * 60 * 1000

\* what the spec calls WatchdogState, and everything the watchdog schedules
Watchdog == <<lastHeartbeat, reconnectAttempts, shuttingDown,
              healTimers, exitTimers, quits, nexits>>

\* C8: a periodic check that finds the watchdog Connected, self-heal enabled
\* and no heartbeat for longer than the stale threshold moves it to
\* ShuttingDown (store closed, exit scheduled); the move is made once, and a
\* check made when already shutting down changes nothing.
C8_StaleDetection ==
    /\ [][IsCheck /\ SilentTooLong
            => shuttingDown' /\ quits' = quits + 1 /\ nexits' = nexits + 1]_vars
    /\ [][IsCheck /\ shuttingDown => UNCHANGED Watchdog]_vars
    /\ [][shuttingDown => shuttingDown']_vars
    /\ [](nexits <= 1)

\* C8 witness: no disconnect was ever seen, yet the watchdog is shutting down
\* and the process exit is scheduled
C8_Witness ==
    /\ shuttingDown
    /\ nevents.disconnect = 0
    /\ isDiscordReady
    /\ now - lastHeartbeat > 10 * 60 * 1000
    /\ nexits = 1

\* C9: shuttingDown never goes back to false, redis.quit and the process
\* exit are issued at most once, and once shuttingDown is set a disconnect or
\* a stale check changes no watchdog state and schedules nothing.
C9_ShuttingDownTerminal ==
    /\ [][shuttingDown => shuttingDown']_vars
    /\ [](nexits <= 1 /\ quits <= 1 /\ Len(exitTimers) <= 1)
    /\ [](shuttingDown <=> nexits = 1)
    /\ [][shuttingDown /\ (IsDisconnect \/ IsCheck) => UNCHANGED Watchdog]_vars

\* C9 witness: a disconnect arrived after the watchdog began shutting down
\* (it cleared isDiscordReady but left reconnectAttempts at zero) and a
\* self-heal timer is still pending
C9_Witness ==
    /\ shuttingDown
    /\ ~isDiscordReady
    /\ nevents.ready > 0
    /\ reconnectAttempts = 0
    /\ Len(healTimers) > 0
    /\ nexits = 1

(***************************************************************************)
(* Properties of the conversation controller.                              *)
(***************************************************************************)
\* the turn is a reply whose context resolution is over: the prompt is final
Resolved(t) ==
    /\ turns[t].message.reference # 0
    /\ turns[t].pc \in {"loadChannel", "loadChannelMessage", "stream", "final", "save"}

\* the prompt without grounding, and with the replied-to text appended
Ungrounded(t) == StripContent(turns[t].message.content)
WithReplyText(t) ==
    Cat(Ungrounded(t),
        Cat(NL, Cat(UseThis, Cat(NL, ContentOf(turns[t].message.reference)))))

StoredNonEmpty(t) ==
    /\ turns[t].refSaved.made
    /\ turns[t].refSaved.ctx.t = "array"
    /\ turns[t].refSaved.ctx.v # <<>>

Runs(t) == turns[t].pc \in {"stream", "final", "save", "done"}

\* C11: a turn whose fetch of the replied-to message failed is not ended by
\* the failure: it goes on to generation, rendering and the context save,
\* with the stripped content alone as its prompt.
C11_FetchFailureNonFatal ==
    \A t \in TurnIds :
        turns[t].failed = "fetch" =>
            /\ turns[t].pc # "aborted"
            /\ Runs(t) /\ turns[t].pc # "done" => turns[t].content = Ungrounded(t)

\* C12: a failing store call never surfaces in the turn: a turn whose load
\* (by message or by channel) met a failing redis.get goes on with the empty
\* context, and a turn whose save met a failing redis.set ends normally.
C12_StoreFailureSwallowed ==
    \A t \in TurnIds :
        /\ turns[t].failed = "load" => turns[t].pc # "aborted"
        /\ turns[t].failed = "save" => turns[t].pc = "done"

\* the step is the failure of the inference stream of turn t
StreamFails(t) == turns[t].pc = "stream" /\ turns'[t].failed = "stream"

\* the turn was ended by a failure of its inference stream
StreamFailed(t) == turns[t].failed = "stream"

\* C13: a failure of the inference stream ends the turn and nothing else:
\* the failing step leaves the store and the chat as they are, no context is
\* ever saved for the turn, the messages the turn had sent stay in the chat
\* unchanged from then on, and the process goes on running and takes the
\* next mention.
C13_StreamFailureAbortsTurn ==
    /\ [][\A t \in TurnIds :
            StreamFails(t) =>
                /\ turns'[t].pc = "aborted"
                /\ UNCHANGED <<redis, lastSave, chat, threads, exited>>]_vars
    /\ [][\A t \in TurnIds :
            StreamFailed(t) =>
                /\ turns'[t] = turns[t]
                /\ \A k \in 1..Len(turns[t].sent) :
                      /\ turns[t].sent[k] \in 1..Len(chat')
                      /\ chat'[turns[t].sent[k]] = chat[turns[t].sent[k]]]_vars
    /\ [](\A t \in TurnIds :
            StreamFailed(t) =>
                /\ ~lastSave[MessageOf(t)].made
                /\ ~exited
                /\ \A k \in 1..Len(turns[t].sent) :
                      chat[turns[t].sent[k]].body # Empty
                /\ t < MaxTurns /\ turns[t + 1].pc = "idle"
                     /\ Cardinality(InFlight) < MaxInFlight
                   => ENABLED TReceive(t + 1))

\* C13 witness: the stream of the first turn failed after a part was
\* rendered; its message is still in the chat, and the second mention was
\* answered by a later message and its context saved
C13_Witness ==
    /\ StreamFailed(1)
    /\ Len(turns[1].sent) = 1
    /\ chat[turns[1].sent[1]].body = Rep("a", 1)
    /\ turns[2].pc = "done"
    /\ Len(turns[2].sent) = 1
    /\ turns[2].sent[1] > turns[1].sent[1]
    /\ lastSave[MessageOf(2)].made
    /\ ~lastSave[MessageOf(1)].made

\* the step is the end of the stream of turn t and what follows it up to the
\* test of lastPart?.context
Finishes(t) == turns[t].pc = "final" /\ turns'[t] # turns[t]

\* C14: a turn whose stream completed without a continuation context (the
\* stream that yields no part at all included) makes no store write and ends
\* without error: the step that ends it leaves every Redis entry as it is,
\* the save is reached only with a context, and no save is recorded for the
\* turn's message.
C14_NoContextNoSave ==
    /\ [][\A t \in TurnIds :
            Finishes(t) /\ ~turns[t].gotContext =>
                /\ turns'[t].pc = "done"
                /\ turns'[t].failed = ""
                /\ UNCHANGED <<redis, lastSave, nsaves>>]_vars
    /\ [](\A t \in TurnIds :
            /\ turns[t].pc = "save" => turns[t].gotContext
            /\ ~turns[t].gotContext => ~lastSave[MessageOf(t)].made)

\* C14 witness: the first turn saved a context for thread 2; the second turn,
\* in the same thread, got no part from its stream, sent nothing and is done,
\* and the thread's entry still leads to the first turn's context
C14_Witness ==
    /\ turns[1].pc = "done"
    /\ turns[1].message.channel = ThreadChannel
    /\ lastSave[MessageOf(1)].made
    /\ lastSave[MessageOf(1)].ctx = Arr(<<1, 2>>)
    /\ turns[2].pc = "done"
    /\ turns[2].message.channel = ThreadChannel
    /\ ~turns[2].gotContext
    /\ turns[2].sent = <<>>
    /\ turns[2].failed = ""
    /\ RedisGet(redis, ChannelKey(2)) = [ok |-> TRUE, v |-> MessageOf(1)]
    /\ loadResult(RedisGet(redis, MessageKey(MessageOf(1)))) = Arr(<<1, 2>>)

\* the channel the message that started the turn was posted in
Origin == resp.message.channel

\* C15: a renderer whose message is in a plain channel creates one thread,
\* anchored to that message, at its first flush and none before or after it,
\* and every message it sends or edits is in that thread; a renderer whose
\* message is in a thread creates none and sends and edits in that thread.
C15_ThreadRedirection ==
    IF Origin.type = GuildText
    THEN /\ Len(threads) <= 1
         /\ threads = <<>> <=> chat = <<>>
         /\ threads = <<>> => resp.channel = Origin
         /\ threads # <<>> =>
               /\ threads[1].startMessage = resp.message.id
               /\ threads[1].channel.type = PublicThread
               /\ threads[1].channel.id # Origin.id
               /\ resp.channel = threads[1].channel
               /\ \A i \in 1..Len(chat) : chat[i].channel = threads[1].channel.id
    ELSE /\ threads = <<>>
         /\ resp.channel = Origin
         /\ \A i \in 1..Len(chat) : chat[i].channel = Origin.id

\* C15 witness: a reply that started in the plain channel was flushed, edited
\* and, after an overflow, continued in a second message; both messages are
\* in the one thread
C15_Witness ==
    /\ Origin = PlainChannel
    /\ Len(threads) = 1
    /\ Len(chat) = 2
    /\ chat[1].channel = NewThread(1).id
    /\ chat[2].channel = NewThread(1).id
    /\ chat[1].body = Cat(chat[1].text, Dots)
    /\ done

(***************************************************************************)
(* Properties of the watchdog: configuration and recovery.                 *)
(***************************************************************************)
\* C16: with self-heal disabled by configuration the watchdog only observes:
\* whatever disconnects, stale checks and timer expiries occur, shuttingDown
\* is never set, redis.quit is never called and no process exit is scheduled
\* or made.
C16_ObserveOnly ==
    ~selfHealEnv =>
        /\ ~shuttingDown
        /\ quits = 0
        /\ nexits = 0
        /\ exitTimers = <<>>
        /\ ~exited

\* C16 witness: self-heal is disabled; the self-heal timer of a disconnect
\* has expired and run, and the periodic check has just run on a connection
\* that is ready and silent for more than ten minutes
C16_Witness ==
    /\ ~selfHealEnv
    /\ nevents.disconnect >= 1
    /\ healTimers = <<>>
    /\ isDiscordReady
    /\ now - lastHeartbeat > 10 * 60 * 1000
    /\ Len(checkAt) = 1
    /\ checkAt[1] = now + HEARTBEAT_INTERVAL
    /\ ~shuttingDown

\* the step is a clientReady event, a shardResume event
IsReady == nevents'.ready = nevents.ready + 1
IsResume == nevents'.resume = nevents.resume + 1

\* C17: every disconnect observed before shutdown adds one to
\* reconnectAttempts, and a ready signal and a resume signal alike set it
\* back to zero and return the watchdog to Connected, where the periodic
\* check looks for a stale connection again.
C17_RecoveryTransition ==
    /\ [][IsDisconnect /\ ~shuttingDown
            => reconnectAttempts' = reconnectAttempts + 1]_vars
    /\ [][IsReady \/ IsResume
            => /\ reconnectAttempts' = 0
               /\ reconnectAttempts > 0 => isDiscordReady']_vars

\* the step is the receipt of a mention
IsMessage == nevents'.message = nevents.message + 1

\* a mention was received no longer ago than the stale threshold
MentionedLately ==
    nevents.message > 0 /\ now - nevents.messageAt <= 10 * 60 * 1000

\* C18: the receipt of a mention sets lastHeartbeat to the current time, so
\* the periodic check never starts a shutdown while the last mention is no
\* older than the stale threshold.
C18_MentionRefreshesHeartbeat ==
    /\ [][IsMessage => lastHeartbeat' = now]_vars
    /\ [][IsCheck /\ MentionedLately => shuttingDown' = shuttingDown]_vars

(***************************************************************************)
(* Properties of the conversation controller: continuation by channel.     *)
(***************************************************************************)
\* turn u has completed and saved a context, and no other turn for a message
\* of the same channel has saved or is saving one
LastSaverIn(u, c) ==
    /\ turns[u].pc = "done"
    /\ turns[u].message.channel = c
    /\ lastSave[MessageOf(u)].made
    /\ \A v \in TurnIds \ {u} :
          turns[v].message.channel = c =>
              ~lastSave[MessageOf(v)].made /\ turns[v].pc # "save"

\* the step is the first store read of the channel load of turn t, and the
\* store answered
ReadsChannel(t) ==
    /\ turns[t].pc = "loadChannel"
    /\ turns'[t].pc # "loadChannel"
    /\ turns'[t].failed = ""

\* C19: after a turn for a mention in channel c has completed and saved
\* context X, a later mention in c that is not a reply resolves c to that
\* turn's message and is generated with context X, in a plain channel as in
\* a thread.
C19_ChannelContinuation ==
    /\ [][\A t, u \in TurnIds :
            /\ t # u
            /\ turns[t].message.reference = 0
            /\ LastSaverIn(u, turns[t].message.channel)
            /\ ReadsChannel(t)
            => /\ turns'[t].pc = "loadChannelMessage"
               /\ turns'[t].messageId = MessageOf(u)]_vars
    /\ [][\A t \in TurnIds :
            turns[t].pc = "loadChannelMessage" /\ turns'[t].pc = "stream"
            => turns'[t].context = lastSave[turns[t].messageId].ctx]_vars

\* the continuation holds for turns whose message is in a thread: there
\* r.channel is the channel of the message
ThreadContinuation ==
    /\ [][\A t, u \in TurnIds :
            /\ t # u
            /\ turns[t].message.reference = 0
            /\ turns[t].message.channel.type = PublicThread
            /\ LastSaverIn(u, turns[t].message.channel)
            /\ ReadsChannel(t)
            => /\ turns'[t].pc = "loadChannelMessage"
               /\ turns'[t].messageId = MessageOf(u)]_vars
    /\ [][\A t \in TurnIds :
            turns[t].pc = "loadChannelMessage" /\ turns'[t].pc = "stream"
            => turns'[t].context = lastSave[turns[t].messageId].ctx]_vars

\* turns t and u were in flight at once
Concurrent(t, u) == t \in turns[u].along \/ u \in turns[t].along

\* turn t has completed and saved its context
Saved(t) == turns[t].pc = "done" /\ lastSave[MessageOf(t)].made

\* turn u is the one that saved last among the turns for messages of channel c
SavedLastIn(u, c) ==
    /\ Saved(u)
    /\ turns[u].message.channel = c
    /\ \A v \in TurnIds \ {u} :
          turns[v].message.channel = c =>
              /\ turns[v].pc \in {"ignored", "done", "aborted"}
              /\ lastSave[MessageOf(v)].seq < lastSave[MessageOf(u)].seq

\* C20: when two turns for mentions in one channel were in flight at once
\* and both have completed and saved, load({channelId}) of that channel
\* returns the context of the one that saved last, whichever started first.
C20_ConcurrentTurns ==
    \A t, u \in TurnIds :
        /\ Concurrent(t, u)
        /\ Saved(t)
        /\ turns[t].message.channel = turns[u].message.channel
        /\ SavedLastIn(u, turns[u].message.channel)
        => loadChannel(redis, turns[u].message.channel.id)
             = lastSave[MessageOf(u)].ctx

\* the last writer wins among concurrent turns whose messages are in a thread
ThreadConcurrentTurns ==
    \A t, u \in TurnIds :
        /\ Concurrent(t, u)
        /\ Saved(t)
        /\ turns[t].message.channel = turns[u].message.channel
        /\ turns[u].message.channel.type = PublicThread
        /\ SavedLastIn(u, turns[u].message.channel)
        => loadChannel(redis, turns[u].message.channel.id)
             = lastSave[MessageOf(u)].ctx

(***************************************************************************)
(* Properties of the throttling generator.                                 *)
(***************************************************************************)
\* the text of the first k parts of the stream, concatenated
RECURSIVE StreamText(_)
StreamText(k) ==
    IF k = 0 THEN Empty ELSE Cat(StreamText(k - 1), OrEmpty(stream[k].response))

\* the text of the first k yielded parts, concatenated
RECURSIVE YieldedText(_)
YieldedText(k) ==
    IF k = 0 THEN Empty ELSE Cat(YieldedText(k - 1), yielded[k].response)

\* the stream ends normally: its last part has done = true
EndsDone == stream # <<>> /\ stream[Len(stream)].done

\* C21: when the last part of the stream has done = true, generate, once it
\* has ended, has yielded the whole text of the stream, and the last part it
\* yielded is the done part with its context, whatever time passed between
\* the parts; until then the text yielded and the text held back make up the
\* text of the parts taken so far.
C21_ThrottleLosesNoText ==
    /\ genPc = "next" =>
          Cat(YieldedText(Len(yielded)), buffer) = StreamText(pos)
    /\ genPc = "yield" => YieldedText(Len(yielded)) = StreamText(pos)
    /\ genPc = "end" /\ EndsDone =>
          /\ YieldedText(Len(yielded)) = StreamText(Len(stream))
          /\ yielded # <<>>
          /\ yielded[Len(yielded)].done
          /\ yielded[Len(yielded)].hasContext
          /\ yielded[Len(yielded)].context = stream[Len(stream)].context

\* C21 witness: of the three parts "a", "b" and the done part, the second
\* came within the flush interval and was held back; generate has ended
\* after two yields, the second carrying "b" and the context
C21_Witness ==
    /\ genPc = "end"
    /\ Len(stream) = 3
    /\ stream[1].response = Rep("a", 1)
    /\ stream[2].response = Rep("b", 1)
    /\ stream[3].done
    /\ Len(yielded) = 2
    /\ yielded[2].response = Rep("b", 1)
    /\ yielded[2].context = Arr(<<1, 2>>)
    /\ genNow > 0

(***************************************************************************)
(* Properties of the watchdog: the self-heal timers.                       *)
(***************************************************************************)
\* the step removes a pending self-heal timer
DropsHealTimer == Len(healTimers') < Len(healTimers)

====
